---- MODULE Spec2Model ----
(***************************************************************************)
(* RegimeShift Sentinel background service worker (class                   *)
(* RegimeShiftSentinel): metrics sampler, change-point detector, regime    *)
(* analyzer, mode state machine and message (command) API.                 *)
(*                                                                         *)
(* JavaScript runs one callback at a time; a handler gives up control only *)
(* at an await.  Every action below is one such run-to-the-next-await      *)
(* segment of a handler.  In-flight handlers are records in the bag        *)
(* `tasks`; the field pc names the await the handler is suspended at.      *)
(*                                                                         *)
(* Numbers: probabilities and thresholds are kept in thousandths           *)
(* (0.75 -> 750).  chrome.storage.local operations take effect in the      *)
(* order they are issued; a failing operation has no effect and rejects.   *)
(***************************************************************************)
EXTENDS Integers, Sequences, FiniteSets, Bags, TLC

(***************************************************************************)
(* Bounds of the model                                                     *)
(***************************************************************************)
MaxTicks == 2
WarmSamples == 6
MaxInFlight == 2
MaxDwellTimers == 2
MaxNotifications == 2
MaxLevel == 1
MaxSeriesLen == 8

(***************************************************************************)
(* Program constants                                                       *)
(***************************************************************************)
DefaultConfidenceThreshold == 750
DefaultWindowSize == 50
MinSamples == 5
Margin == 3
ProbabilityCap == 950
TestProbability == 850
TestChangePoint == 5
(* documented settings ranges: the popup's input controls *)
MinConfidenceThreshold == 500
MaxConfidenceThreshold == 950
MinWindowSize == 10
MaxWindowSize == 200

StoreKeys ==
  {"currentMetrics", "currentWarning", "currentMode", "stabilizationActive",
   "confidenceThreshold", "windowSize", "monitoringEnabled"}

SettingsKeys == {"confidenceThreshold", "windowSize", "monitoringEnabled"}

VARIABLES
  metrics,              \* this.metrics: the sliding window, oldest first
  currentMode,          \* this.currentMode
  confidenceThreshold,  \* this.confidenceThreshold (thousandths)
  windowSize,           \* this.windowSize
  stabilizationActive,  \* this.stabilizationActive
  isInitialized,        \* this.isInitialized
  listening,            \* onMessage / onAlarm listeners registered
  store,                \* chrome.storage.local: key -> <<>> (absent) or <<value>>
  tasks,                \* bag of handlers suspended at an await
  dwellTimers,          \* pending setTimeout(exitStabilizationMode) callbacks
  notifications,        \* chrome.notifications.create calls made so far
  discarded,            \* tab ids passed to chrome.tabs.discard with success
  clock,                \* Date.now(), one unit per sampler tick
  lastResponse,         \* argument of the latest sendResponse call
  sinceClear,           \* history: CLEAR_DATA answered and no sampler tick begun since
  unanswered,           \* history: handleMessage calls minus sendResponse calls
  series,               \* detector on its own: the argument, <<>> (undefined) or <<array>>
  detected              \* detector on its own: what detectChangePoint returned

vars ==
  <<metrics, currentMode, confidenceThreshold, windowSize, stabilizationActive,
    isInitialized, listening, store, tasks, dwellTimers, notifications,
    discarded, clock, lastResponse, sinceClear, unanswered, series, detected>>

(***************************************************************************)
(* chrome.storage.local                                                    *)
(***************************************************************************)
EmptyStore == [k \in StoreKeys |-> <<>>]

Has(s, k) == s[k] # <<>>

(* storage.local.set(items): the keys of items are written, the rest kept *)
StoreSet(s, items) ==
  [k \in StoreKeys |-> IF k \in DOMAIN items THEN <<items[k]>> ELSE s[k]]

(* storage.local.remove(key) *)
StoreRemove(s, key) == [s EXCEPT ![key] = <<>>]

(* storage.local.clear() *)
StoreClear(s) == EmptyStore

(* storage.local.get(keys): only the keys that are present come back *)
StoreGet(s, keys) == [k \in {x \in keys : Has(s, x)} |-> s[k][1]]

(***************************************************************************)
(* Change-point detector (pure).  A series is a sequence of integers.      *)
(* For the split after the first i values, with m = n - i:                 *)
(*   |mean1 - mean2| = N / D,  var1 + var2 = W / D^2,  where               *)
(*   N = |S1*m - S2*i|, D = i*m,                                           *)
(*   W = (i*Q1 - S1^2)*m^2 + (m*Q2 - S2^2)*i^2                             *)
(* so the uncapped score is 1000*N / (1000*sqrt(W) + D).                   *)
(***************************************************************************)
RECURSIVE SumSeq(_)
SumSeq(s) == IF s = <<>> THEN 0 ELSE Head(s) + SumSeq(Tail(s))

RECURSIVE SumSq(_)
SumSq(s) == IF s = <<>> THEN 0 ELSE Head(s) * Head(s) + SumSq(Tail(s))

Abs(x) == IF x < 0 THEN -x ELSE x

SplitN(s, i) ==
  LET m  == Len(s) - i
      S1 == SumSeq(SubSeq(s, 1, i))
      S2 == SumSeq(SubSeq(s, i + 1, Len(s)))
  IN  Abs(S1 * m - S2 * i)

SplitD(s, i) == i * (Len(s) - i)

SplitW(s, i) ==
  LET m  == Len(s) - i
      a  == SubSeq(s, 1, i)
      b  == SubSeq(s, i + 1, Len(s))
  IN  (i * SumSq(a) - SumSeq(a) * SumSeq(a)) * m * m
      + (m * SumSq(b) - SumSeq(b) * SumSeq(b)) * i * i

(* 1000*N / (1000*sqrt(W) + D)  >  p / 1000, decided exactly in integers: *)
(* 10^6*N - p*D > 1000*p*sqrt(W), squared and divided by 10^6              *)
RawAbove(N, W, D, p) ==
  LET lhs == 1000000 * N - p * D
      H   == 1000000 * N * N - p * p * W - 2 * N * p * D
  IN  IF p < 0 THEN TRUE
      ELSE IF p = 0 THEN N > 0
      ELSE IF lhs <= 0 THEN FALSE
      ELSE H >= 0 \/ (-H) <= ((p * D) * (p * D) - 1) \div 1000000

(* least k in lo..hi with score <= k/1000 (hi when there is none below hi) *)
RECURSIVE CeilSearch(_, _, _, _, _)
CeilSearch(N, W, D, lo, hi) ==
  IF lo >= hi THEN lo
  ELSE LET mid == (lo + hi) \div 2
       IN  IF RawAbove(N, W, D, mid)
           THEN CeilSearch(N, W, D, mid + 1, hi)
           ELSE CeilSearch(N, W, D, lo, mid)

SplitScoreComplement(s, i) ==
  ProbabilityCap - CeilSearch(SplitN(s, i), SplitW(s, i), SplitD(s, i), 0, ProbabilityCap)

SplitScoreCapOne(s, i) ==
  CeilSearch(SplitN(s, i), SplitW(s, i), SplitD(s, i), 0, 1000)

(* Math.min(0.95, |mean1 - mean2| / (sqrt(var1 + var2) + 0.001)), in        *)
(* thousandths rounded up: score > t/1000 iff SplitScore > t for integer t  *)
SplitScore(s, i) ==
  CeilSearch(SplitN(s, i), SplitW(s, i), SplitD(s, i), 0, ProbabilityCap)

(* the split positions the loop "for (i = 3; i < n - 3; i++)" tries *)
CandidateSplits(s) == Margin .. Len(s) - Margin - 1

(* the loop with the bound "i <= n - 3" *)
RECURSIVE DetectLoopInclusive(_, _, _, _)
DetectLoopInclusive(s, i, maxProbability, bestChangePoint) ==
  IF i > Len(s) - Margin
    THEN [probability |-> maxProbability, changePoint |-> bestChangePoint,
          magnitude |-> maxProbability]
    ELSE LET probability == SplitScore(s, i)
         IN  IF probability > maxProbability
               THEN DetectLoopInclusive(s, i + 1, probability, i)
               ELSE DetectLoopInclusive(s, i + 1, maxProbability, bestChangePoint)

(* the loop "for (i = 3; i < n - 3; i++)", carrying maxProbability and bestChangePoint *)
RECURSIVE DetectLoop(_, _, _, _)
DetectLoop(s, i, maxProbability, bestChangePoint) ==
  IF i >= Len(s) - Margin
    THEN [probability |-> maxProbability, changePoint |-> bestChangePoint,
          magnitude |-> maxProbability]
    ELSE LET probability == SplitScore(s, i)
         IN  IF probability > maxProbability
               THEN DetectLoop(s, i + 1, probability, i)
               ELSE DetectLoop(s, i + 1, maxProbability, bestChangePoint)

detectChangePointZero(timeSeries) ==
  IF timeSeries = <<>> \/ Len(timeSeries[1]) < 2
    THEN [probability |-> 0, changePoint |-> 0, magnitude |-> 0]
    ELSE DetectLoop(timeSeries[1], Margin, 0, -1)

(* timeSeries is <<>> (undefined) or <<array>>:                            *)
(* "if (!timeSeries || timeSeries.length < 2) return {0, -1, 0}"           *)
detectChangePoint(timeSeries) ==
  IF timeSeries = <<>> \/ Len(timeSeries[1]) < 2
    THEN [probability |-> 0, changePoint |-> -1, magnitude |-> 0]
    ELSE DetectLoop(timeSeries[1], Margin, 0, -1)

(* no call of the detector on its own has returned yet *)
NoResult == [probability |-> -1, changePoint |-> -1, magnitude |-> -1]

calculateSeverity(magnitude) ==
  IF magnitude > 800 THEN "critical"
  ELSE IF magnitude > 600 THEN "high"
  ELSE IF magnitude > 400 THEN "medium"
  ELSE "low"

(***************************************************************************)
(* Handlers in flight                                                      *)
(***************************************************************************)
NoSettings == [k \in SettingsKeys |-> <<>>]

Task(kind, pc, num, ok, settings) ==
  [kind |-> kind, pc |-> pc, num |-> num, ok |-> ok, settings |-> settings]

InFlight == BagCardinality(tasks)

InFlightOf(kind) ==
  BagCardinality([t \in {x \in BagToSet(tasks) : x.kind = kind} |-> tasks[t]])

Spawn(t) == tasks (+) SetToBag({t})

Finish(t) == tasks (-) SetToBag({t})

Resume(t, u) == (tasks (-) SetToBag({t})) (+) SetToBag({u})

Suspended(kind, pc) == {t \in BagToSet(tasks) : t.kind = kind /\ t.pc = pc}

(* the argument of sendResponse *)
Response(result) ==
  [result |-> result, mode |-> "", stabilizationActive |-> FALSE,
   metricsCount |-> 0, isInitialized |-> FALSE, metrics |-> <<>>,
   settings |-> NoSettings]

(* sendResponse(response): the request is answered *)
sendResponse(response) ==
  /\ lastResponse' = response
  /\ unanswered' = unanswered - 1

(***************************************************************************)
(* The browser's tabs, as chrome.tabs.query({}) reports them               *)
(***************************************************************************)
Tabs ==
  << [id |-> 1, active |-> TRUE,  pinned |-> FALSE],
     [id |-> 2, active |-> FALSE, pinned |-> TRUE],
     [id |-> 3, active |-> FALSE, pinned |-> FALSE],
     [id |-> 4, active |-> FALSE, pinned |-> FALSE] >>

(* "if (!tab.active && !tab.pinned && tab.id)" *)
Discardable(tab) == ~tab.active /\ ~tab.pinned /\ tab.id # 0

(* index of the first discardable tab at or after position from, 0 if none *)
NextDiscardable(from) ==
  LET later == {j \in from .. Len(Tabs) : Discardable(Tabs[j])}
  IN  IF later = {} THEN 0 ELSE CHOOSE j \in later : \A k \in later : j <= k

(***************************************************************************)
(* Init: the state the constructor leaves, initialize() suspended at its   *)
(* first await (storage.local.get) on a fresh store                        *)
(***************************************************************************)
Init ==
  /\ metrics = <<>>
  /\ currentMode = "adaptive_observation"
  /\ confidenceThreshold = DefaultConfidenceThreshold
  /\ windowSize = DefaultWindowSize
  /\ stabilizationActive = FALSE
  /\ isInitialized = FALSE
  /\ listening = {}
  /\ store = EmptyStore
  /\ tasks = SetToBag({Task("initialize", "storage_get", 0, TRUE, NoSettings)})
  /\ dwellTimers = 0
  /\ notifications = 0
  /\ discarded = {}
  /\ clock = 0
  /\ lastResponse = Response("none")
  /\ sinceClear = FALSE
  /\ unanswered = 0
  /\ series = <<>>
  /\ detected = NoResult

(* A monitoring session under way: initialize() has completed, the sampler   *)
(* has run Len(window) ticks (stamped before time 0) and published the last  *)
(* one, the analyzer has run on five or more samples without finding a shift *)
(* (which stored the mode), and no handler is in flight.                     *)
Session(window) ==
  /\ metrics = window
  /\ currentMode = "adaptive_observation"
  /\ confidenceThreshold = DefaultConfidenceThreshold
  /\ windowSize = DefaultWindowSize
  /\ stabilizationActive = FALSE
  /\ isInitialized = TRUE
  /\ listening = {"alarm", "message"}
  /\ store = StoreSet(EmptyStore, [currentMetrics |-> window[Len(window)],
                                   currentMode |-> "adaptive_observation"])
  /\ tasks = EmptyBag
  /\ dwellTimers = 0
  /\ notifications = 0
  /\ discarded = {}
  /\ clock = 0
  /\ lastResponse = Response("none")
  /\ sinceClear = FALSE
  /\ unanswered = 0

(* the same, with the detector not called on its own *)
Monitoring(window) ==
  /\ Session(window)
  /\ series = <<>>
  /\ detected = NoResult

(* a window of len samples whose memory usage steps from 0 to 1 after stepAt *)
StepWindow(len, stepAt) ==
  [j \in 1 .. len |->
     [timestamp |-> j - len - 1, memory |-> IF j <= stepAt THEN 0 ELSE 1, cpu |-> 0,
      tabs |-> Len(Tabs)]]

(* WarmSamples samples: flat usage, or a step after the first Margin samples *)
InitMonitoring ==
  \E stepAt \in {Margin, WarmSamples} : Monitoring(StepWindow(WarmSamples, stepAt))

(* a flat window holding as many samples as the smallest documented windowSize *)
InitWindow == Monitoring(StepWindow(MinWindowSize, MinWindowSize))

(***************************************************************************)
(* initialize / setupAlarms / startMonitoring                              *)
(***************************************************************************)
(* "if (settings.x)": a stored 0 is falsy and keeps the default *)
Truthy(settings, k) == k \in DOMAIN settings /\ settings[k] # 0

(* storage.local.get resolved (ok) or rejected; then setupAlarms is awaited *)
InitializeLoad(ok) ==
  \E t \in Suspended("initialize", "storage_get") :
    LET settings == StoreGet(store, SettingsKeys)
    IN  /\ IF ok
             THEN /\ confidenceThreshold' =
                       IF Truthy(settings, "confidenceThreshold")
                         THEN settings["confidenceThreshold"] ELSE confidenceThreshold
                  /\ windowSize' =
                       IF Truthy(settings, "windowSize")
                         THEN settings["windowSize"] ELSE windowSize
                  /\ tasks' = Resume(t, [t EXCEPT !.pc = "setup_alarms"])
             ELSE /\ tasks' = Finish(t)
                  /\ UNCHANGED <<confidenceThreshold, windowSize>>
        /\ UNCHANGED <<metrics, currentMode, stabilizationActive, isInitialized,
                       listening, series, detected, store, dwellTimers, notifications, discarded,
                       clock, lastResponse, unanswered, sinceClear>>

(* setupAlarms returned (its own failure is caught inside it and leaves the  *)
(* alarm listener unregistered); the message listener is added and           *)
(* startMonitoring runs: a first collectMetrics and a one-off analyze timer  *)
InitializeStart(okAlarms) ==
  \E t \in Suspended("initialize", "setup_alarms") :
    /\ listening' = IF okAlarms THEN {"alarm", "message"} ELSE {"message"}
    /\ tasks' = (Finish(t) (+) SetToBag({Task("collectMetrics", "adapters", clock, TRUE, NoSettings)}))
                  (+) SetToBag({Task("analyzeMetrics", "timeout", 0, TRUE, NoSettings)})
    /\ clock' = clock + 1
    /\ isInitialized' = TRUE
    /\ UNCHANGED <<metrics, currentMode, confidenceThreshold, windowSize,
                   stabilizationActive, store, dwellTimers, notifications,
                   discarded, lastResponse, unanswered, sinceClear, series, detected>>

(***************************************************************************)
(* Metrics sampler                                                         *)
(***************************************************************************)
(* arr.slice(-k): the last k elements; slice(-0) is slice(0), the whole     *)
(* array; a negative k gives slice(|k|), which drops the first |k| elements *)
SliceLast(arr, k) ==
  LET start == IF k > 0 THEN (IF Len(arr) - k > 0 THEN Len(arr) - k ELSE 0)
               ELSE (IF -k < Len(arr) THEN -k ELSE Len(arr))
  IN  SubSeq(arr, start + 1, Len(arr))

PushSampleOldest(window, sample, size) ==
  LET pushed == Append(window, sample)
  IN  IF Len(pushed) > size THEN SubSeq(pushed, 1, size) ELSE pushed

PushSampleLate(window, sample, size) ==
  LET pushed == Append(window, sample)
  IN  IF Len(pushed) > size + 1 THEN SliceLast(pushed, size) ELSE pushed

(* "this.metrics.push(metrics); if (length > windowSize) slice(-windowSize)" *)
PushSample(window, sample, size) ==
  LET pushed == Append(window, sample)
  IN  IF Len(pushed) > size THEN SliceLast(pushed, size) ELSE pushed

(* alarm 'collectMetrics': the handler reads Date.now() and awaits the adapters *)
CollectMetricsBegin ==
  /\ "alarm" \in listening
  /\ clock < MaxTicks
  /\ InFlight < MaxInFlight
  /\ tasks' = Spawn(Task("collectMetrics", "adapters", clock, TRUE, NoSettings))
  /\ clock' = clock + 1
  /\ sinceClear' = FALSE
  /\ UNCHANGED <<metrics, currentMode, confidenceThreshold, windowSize,
                 stabilizationActive, isInitialized, listening, series, detected, store,
                 dwellTimers, notifications, discarded, lastResponse, unanswered>>

(* usage the fallback branches make up: 30 + Math.random() * 40 for memory,  *)
(* 20 + Math.random() * 50 for the processor (the ends of the two ranges)    *)
FallbackMemoryUsage == {30, 69}
FallbackCpuUsage == {20, 69}

getMemoryInfoNoFallback(ok, usage, fallback) == IF ok THEN usage ELSE -1

(* getMemoryInfo: the measured usage, or the fallback when chrome.system.memory *)
(* is missing or getInfo() rejects                                              *)
getMemoryInfo(ok, usage, fallback) == IF ok THEN usage ELSE fallback

(* getCpuInfo: likewise for chrome.system.cpu *)
getCpuInfo(ok, usage, fallback) == IF ok THEN usage ELSE fallback

(* getTabInfo: the number of tabs, or 0 when chrome.tabs.query rejects *)
getTabInfo(ok) == IF ok THEN Len(Tabs) ELSE 0

(* the adapters have answered (measured or fallback values): the sample is   *)
(* pushed, the window trimmed and storage.local.set({currentMetrics}) issued *)
CollectMetricsSample(memory, cpu, tabs, ok) ==
  \E t \in Suspended("collectMetrics", "adapters") :
    LET sample == [timestamp |-> t.num, memory |-> memory, cpu |-> cpu, tabs |-> tabs]
    IN  /\ metrics' = PushSample(metrics, sample, windowSize)
        /\ store' = IF ok THEN StoreSet(store, [currentMetrics |-> sample]) ELSE store
        /\ tasks' = Finish(t)
        /\ UNCHANGED <<currentMode, confidenceThreshold, windowSize,
                       stabilizationActive, isInitialized, listening, series, detected,
                       dwellTimers, notifications, discarded, clock,
                       lastResponse, unanswered, sinceClear>>

(* a tick whose tab adapter succeeded *)
CollectMetricsAppend(memory, cpu, ok) ==
  CollectMetricsSample(memory, cpu, getTabInfo(TRUE), ok)

(***************************************************************************)
(* Regime analyzer and the shift-confirmed transition                      *)
(***************************************************************************)
Finding(metric, shift) ==
  [metric |-> metric, probability |-> shift.probability,
   changePoint |-> shift.changePoint, severity |-> calculateSeverity(shift.magnitude)]

DetectedShiftsInclusive(window, threshold) ==
  LET memoryUsage == [j \in 1 .. Len(window) |-> window[j].memory]
      cpuUsage    == [j \in 1 .. Len(window) |-> window[j].cpu]
      memoryShift == detectChangePoint(<<memoryUsage>>)
      cpuShift    == detectChangePoint(<<cpuUsage>>)
  IN  (IF memoryShift.probability >= threshold
         THEN <<Finding("memory_usage", memoryShift)>> ELSE <<>>)
      \o
      (IF cpuShift.probability >= threshold
         THEN <<Finding("cpu_usage", cpuShift)>> ELSE <<>>)

(* the memory series extracted after the oldest sample has been evicted, the *)
(* processor series before                                                   *)
DetectedShiftsTorn(window, threshold) ==
  LET memoryUsage == [j \in 1 .. Len(window) - 1 |-> window[j + 1].memory]
      cpuUsage    == [j \in 1 .. Len(window) |-> window[j].cpu]
      memoryShift == detectChangePoint(<<memoryUsage>>)
      cpuShift    == detectChangePoint(<<cpuUsage>>)
  IN  (IF memoryShift.probability > threshold
         THEN <<Finding("memory_usage", memoryShift)>> ELSE <<>>)
      \o
      (IF cpuShift.probability > threshold
         THEN <<Finding("cpu_usage", cpuShift)>> ELSE <<>>)

(* detectedShifts of analyzeMetrics: memory first, then cpu *)
DetectedShifts(window, threshold) ==
  LET memoryUsage == [j \in 1 .. Len(window) |-> window[j].memory]
      cpuUsage    == [j \in 1 .. Len(window) |-> window[j].cpu]
      memoryShift == detectChangePoint(<<memoryUsage>>)
      cpuShift    == detectChangePoint(<<cpuUsage>>)
  IN  (IF memoryShift.probability > threshold
         THEN <<Finding("memory_usage", memoryShift)>> ELSE <<>>)
      \o
      (IF cpuShift.probability > threshold
         THEN <<Finding("cpu_usage", cpuShift)>> ELSE <<>>)

MaxProbabilityFirst(shifts) == shifts[1].probability

(* Math.max(...shifts.map(s => s.probability)) *)
MaxProbability(shifts) ==
  CHOOSE p \in {shifts[j].probability : j \in 1 .. Len(shifts)} :
    \A j \in 1 .. Len(shifts) : shifts[j].probability <= p

(* the warning record of handleRegimeShift (its Date.now() stamp is left out) *)
Warning(shifts) == [shifts |-> shifts, overallConfidence |-> MaxProbability(shifts)]

ShiftModeStabilize == "stabilization"

(* the mode handleRegimeShift moves to *)
ShiftMode == "warning"

handleRegimeShiftAbsorb(shifts, ok) ==
  IF currentMode = "adaptive_observation"
    THEN /\ currentMode' = ShiftMode
         /\ store' = IF ok
                       THEN StoreSet(store, [currentWarning |-> Warning(shifts),
                                             currentMode |-> ShiftMode])
                       ELSE store
    ELSE UNCHANGED <<currentMode, store>>

(* handleRegimeShift up to its await: the mode is set and                   *)
(* storage.local.set({currentWarning, currentMode}) is issued               *)
handleRegimeShift(shifts, ok) ==
  /\ currentMode' = ShiftMode
  /\ store' = IF ok
                THEN StoreSet(store, [currentWarning |-> Warning(shifts),
                                      currentMode |-> ShiftMode])
                ELSE store

(* the mode assigned in memory only *)
updateModeUnwritten(s, mode, ok) == s

(* updateMode: storage.local.set({currentMode}); a rejection is only logged *)
updateMode(s, mode, ok) == IF ok THEN StoreSet(s, [currentMode |-> mode]) ELSE s

(* the mode the analyzer's no-shift branch assigns *)
NoShiftMode(mode) == "adaptive_observation"

analyzeMetricsEager(base, ok) ==
  LET detectedShifts == DetectedShifts(metrics, confidenceThreshold)
  IN  /\ IF Len(detectedShifts) > 0
           THEN /\ notifications < MaxNotifications
                /\ handleRegimeShift(detectedShifts, ok)
                /\ tasks' = base (+) SetToBag({Task("analyzeMetrics", "warning_set", 0, ok, NoSettings)})
           ELSE /\ currentMode' = NoShiftMode(currentMode)
                /\ store' = updateMode(store, NoShiftMode(currentMode), ok)
                /\ tasks' = base
      /\ UNCHANGED <<metrics, confidenceThreshold, windowSize, stabilizationActive,
                     isInitialized, listening, series, detected, dwellTimers, notifications,
                     discarded, clock, lastResponse, unanswered, sinceClear>>

(* analyzeMetrics from its start to its first await; base is the bag of the *)
(* other handlers in flight                                                  *)
analyzeMetrics(base, ok) ==
  LET detectedShifts == DetectedShifts(metrics, confidenceThreshold)
  IN  /\ IF Len(metrics) < MinSamples
           THEN /\ tasks' = base
                /\ UNCHANGED <<currentMode, store>>
           ELSE IF Len(detectedShifts) > 0
             THEN /\ notifications < MaxNotifications
                  /\ handleRegimeShift(detectedShifts, ok)
                  /\ tasks' = base (+) SetToBag({Task("analyzeMetrics", "warning_set", 0, ok, NoSettings)})
             ELSE /\ currentMode' = NoShiftMode(currentMode)
                  /\ store' = updateMode(store, NoShiftMode(currentMode), ok)
                  /\ tasks' = base
      /\ UNCHANGED <<metrics, confidenceThreshold, windowSize, stabilizationActive,
                     isInitialized, listening, series, detected, dwellTimers, notifications,
                     discarded, clock, lastResponse, unanswered, sinceClear>>

(* alarm 'analyzeMetrics' *)
AnalyzeMetricsAlarm(ok) ==
  /\ "alarm" \in listening
  /\ InFlight < MaxInFlight
  /\ analyzeMetrics(tasks, ok)

(* the one-off setTimeout(analyzeMetrics, 5000) of startMonitoring *)
AnalyzeMetricsTimeout(ok) ==
  \E t \in Suspended("analyzeMetrics", "timeout") : analyzeMetrics(Finish(t), ok)

(* handleRegimeShift after its await, called from analyzeMetrics: on success *)
(* sendNotification(warning), on rejection only the catch block              *)
AnalyzeMetricsNotify ==
  \E t \in Suspended("analyzeMetrics", "warning_set") :
    /\ notifications' = IF t.ok THEN notifications + 1 ELSE notifications
    /\ tasks' = Finish(t)
    /\ UNCHANGED <<metrics, currentMode, confidenceThreshold, windowSize,
                   stabilizationActive, isInitialized, listening, series, detected, store,
                   dwellTimers, discarded, clock, lastResponse, unanswered, sinceClear>>

(***************************************************************************)
(* Stabilization                                                           *)
(***************************************************************************)
(* exitStabilizationMode up to its await (nothing but logging follows it),  *)
(* run by the setTimeout callback scheduled in performStabilizationActions  *)
exitStabilizationMode(ok) ==
  /\ stabilizationActive' = FALSE
  /\ currentMode' = "adaptive_observation"
  /\ store' = IF ok
                THEN StoreSet(store, [currentMode |-> "adaptive_observation",
                                      stabilizationActive |-> FALSE])
                ELSE store

DwellTimeout(ok) ==
  /\ dwellTimers > 0
  /\ dwellTimers' = dwellTimers - 1
  /\ exitStabilizationMode(ok)
  /\ UNCHANGED <<metrics, confidenceThreshold, windowSize, isInitialized,
                 listening, series, detected, tasks, notifications, discarded, clock,
                 lastResponse, unanswered, sinceClear>>

(***************************************************************************)
(* Command API: handleMessage                                              *)
(***************************************************************************)
Actions ==
  {"GET_METRICS", "GET_STATUS", "TRIGGER_STABILIZATION", "ACKNOWLEDGE_WARNING",
   "GET_SETTINGS", "UPDATE_SETTINGS", "TEST_WARNING", "CLEAR_DATA"}

(* handleMessage itself: the work is deferred with setTimeout(..., 0) *)
handleMessage(action, settings) ==
  /\ "message" \in listening
  /\ InFlight < MaxInFlight
  /\ action = "TRIGGER_STABILIZATION" =>
       dwellTimers + InFlightOf(action) < MaxDwellTimers
  /\ action = "TEST_WARNING" => notifications < MaxNotifications
  /\ tasks' = Spawn(Task(action, "queued", 0, TRUE, settings))
  /\ unanswered' = unanswered + 1
  /\ UNCHANGED <<metrics, currentMode, confidenceThreshold, windowSize,
                 stabilizationActive, isInitialized, listening, series, detected, store,
                 dwellTimers, notifications, discarded, clock, lastResponse,
                 sinceClear>>

(* case 'GET_METRICS' *)
GetMetrics ==
  \E t \in Suspended("GET_METRICS", "queued") :
    /\ sendResponse([Response("metrics") EXCEPT !.metrics = metrics])
    /\ tasks' = Finish(t)
    /\ UNCHANGED <<metrics, currentMode, confidenceThreshold, windowSize,
                   stabilizationActive, isInitialized, listening, series, detected, store,
                   dwellTimers, notifications, discarded, clock, sinceClear>>

GetStatusCapacity ==
  \E t \in Suspended("GET_STATUS", "queued") :
    /\ sendResponse([Response("status") EXCEPT
                          !.mode = currentMode,
                          !.stabilizationActive = stabilizationActive,
                          !.metricsCount = windowSize,
                          !.isInitialized = isInitialized])
    /\ tasks' = Finish(t)
    /\ UNCHANGED <<metrics, currentMode, confidenceThreshold, windowSize,
                   stabilizationActive, isInitialized, listening, series, detected, store,
                   dwellTimers, notifications, discarded, clock, sinceClear>>

(* case 'GET_STATUS' *)
GetStatus ==
  \E t \in Suspended("GET_STATUS", "queued") :
    /\ sendResponse([Response("status") EXCEPT
                          !.mode = currentMode,
                          !.stabilizationActive = stabilizationActive,
                          !.metricsCount = Len(metrics),
                          !.isInitialized = isInitialized])
    /\ tasks' = Finish(t)
    /\ UNCHANGED <<metrics, currentMode, confidenceThreshold, windowSize,
                   stabilizationActive, isInitialized, listening, series, detected, store,
                   dwellTimers, notifications, discarded, clock, sinceClear>>

(* case 'TRIGGER_STABILIZATION': enterStabilizationMode up to its await *)
EnterStabilizationMode(ok) ==
  \E t \in Suspended("TRIGGER_STABILIZATION", "queued") :
    /\ currentMode' = "stabilization"
    /\ stabilizationActive' = TRUE
    /\ store' = IF ok
                  THEN StoreSet(store, [currentMode |-> "stabilization",
                                        stabilizationActive |-> TRUE])
                  ELSE store
    /\ tasks' = Resume(t, [t EXCEPT !.pc = "stabilization_set", !.ok = ok])
    /\ UNCHANGED <<metrics, confidenceThreshold, windowSize, isInitialized,
                   listening, series, detected, dwellTimers, notifications, discarded, clock,
                   lastResponse, unanswered, sinceClear>>

(* the storage write settled: on rejection the catch of enterStabilizationMode *)
(* runs and the command is answered; otherwise performStabilizationActions     *)
(* starts and awaits chrome.tabs.query                                         *)
PerformStabilizationActionsUnchecked(okQuery) ==
  \E t \in Suspended("TRIGGER_STABILIZATION", "stabilization_set") :
    /\ tasks' = Resume(t, [t EXCEPT !.pc = "tabs_query", !.ok = okQuery])
    /\ UNCHANGED <<metrics, currentMode, confidenceThreshold, windowSize,
                   stabilizationActive, isInitialized, listening, series, detected, store,
                   dwellTimers, notifications, discarded, clock, sinceClear,
                   lastResponse, unanswered>>

PerformStabilizationActions(okQuery) ==
  \E t \in Suspended("TRIGGER_STABILIZATION", "stabilization_set") :
    /\ IF t.ok
         THEN /\ tasks' = Resume(t, [t EXCEPT !.pc = "tabs_query", !.ok = okQuery])
              /\ UNCHANGED <<lastResponse, unanswered>>
         ELSE /\ tasks' = Finish(t)
              /\ sendResponse(Response("success"))
    /\ UNCHANGED <<metrics, currentMode, confidenceThreshold, windowSize,
                   stabilizationActive, isInitialized, listening, series, detected, store,
                   dwellTimers, notifications, discarded, clock, sinceClear>>

(* the end of performStabilizationActions: the exit timer is set; then        *)
(* enterStabilizationMode returns and the command is answered                 *)
ScheduleExit(t) ==
  /\ dwellTimers' = dwellTimers + 1
  /\ tasks' = Finish(t)
  /\ sendResponse(Response("success"))

(* one turn of "for (const tab of tabs)" from position from on *)
DiscardFrom(t, from, okDiscard) ==
  IF NextDiscardable(from) = 0
    THEN ScheduleExit(t)
    ELSE /\ tasks' = Resume(t, [t EXCEPT !.pc = "discard",
                                         !.num = NextDiscardable(from),
                                         !.ok = okDiscard])
         /\ UNCHANGED <<dwellTimers, lastResponse, unanswered>>

(* chrome.tabs.query settled: on rejection the catch of                       *)
(* performStabilizationActions runs (no timer is set) and the command is      *)
(* answered; otherwise the loop over the tabs starts                          *)
StabilizationQueried(okDiscard) ==
  \E t \in Suspended("TRIGGER_STABILIZATION", "tabs_query") :
    /\ IF t.ok
         THEN DiscardFrom(t, 1, okDiscard)
         ELSE /\ tasks' = Finish(t)
              /\ sendResponse(Response("success"))
              /\ UNCHANGED dwellTimers
    /\ UNCHANGED <<metrics, currentMode, confidenceThreshold, windowSize,
                   stabilizationActive, isInitialized, listening, series, detected, store,
                   notifications, discarded, clock, sinceClear>>

(* a rejected discard caught by the catch of performStabilizationActions:     *)
(* the loop and the timer are skipped                                         *)
StabilizationDiscardedAbort(okDiscard) ==
  \E t \in Suspended("TRIGGER_STABILIZATION", "discard") :
    /\ IF t.ok
         THEN /\ discarded' = discarded \cup {Tabs[t.num].id}
              /\ DiscardFrom(t, t.num + 1, okDiscard)
         ELSE /\ tasks' = Finish(t)
              /\ sendResponse(Response("success"))
              /\ UNCHANGED <<discarded, dwellTimers>>
    /\ UNCHANGED <<metrics, currentMode, confidenceThreshold, windowSize,
                   stabilizationActive, isInitialized, listening, series, detected, store,
                   notifications, clock, sinceClear>>

(* chrome.tabs.discard settled (a rejection is caught per tab); the loop goes on *)
StabilizationDiscarded(okDiscard) ==
  \E t \in Suspended("TRIGGER_STABILIZATION", "discard") :
    /\ discarded' = IF t.ok THEN discarded \cup {Tabs[t.num].id} ELSE discarded
    /\ DiscardFrom(t, t.num + 1, okDiscard)
    /\ UNCHANGED <<metrics, currentMode, confidenceThreshold, windowSize,
                   stabilizationActive, isInitialized, listening, series, detected, store,
                   notifications, clock, sinceClear>>

(* case 'ACKNOWLEDGE_WARNING': storage.local.remove('currentWarning') issued; *)
(* num keeps, as history, whether the mode was Warning when handling began    *)
AcknowledgeWarningRemove(ok) ==
  \E t \in Suspended("ACKNOWLEDGE_WARNING", "queued") :
    /\ store' = IF ok THEN StoreRemove(store, "currentWarning") ELSE store
    /\ tasks' = Resume(t, [t EXCEPT !.pc = "warning_remove", !.ok = ok,
                                    !.num = IF currentMode = "warning" THEN 1 ELSE 0])
    /\ UNCHANGED <<metrics, currentMode, confidenceThreshold, windowSize,
                   stabilizationActive, isInitialized, listening, series, detected, dwellTimers,
                   notifications, discarded, clock, lastResponse, unanswered, sinceClear>>

AcknowledgeWarningModeSilent(ok) ==
  \E t \in Suspended("ACKNOWLEDGE_WARNING", "warning_remove") :
    /\ IF t.ok
         THEN /\ currentMode' = "adaptive_observation"
              /\ store' = updateMode(store, "adaptive_observation", ok)
              /\ tasks' = Resume(t, [t EXCEPT !.pc = "mode_set", !.ok = ok])
         ELSE /\ tasks' = Finish(t)
              /\ UNCHANGED <<currentMode, store>>
    /\ UNCHANGED <<metrics, confidenceThreshold, windowSize, stabilizationActive,
                   isInitialized, listening, series, detected, dwellTimers, notifications,
                   discarded, clock, sinceClear, lastResponse, unanswered>>

(* the remove settled: a rejection is answered with an error; otherwise the  *)
(* mode is reset and updateMode issues its write                             *)
AcknowledgeWarningMode(ok) ==
  \E t \in Suspended("ACKNOWLEDGE_WARNING", "warning_remove") :
    /\ IF t.ok
         THEN /\ currentMode' = "adaptive_observation"
              /\ store' = updateMode(store, "adaptive_observation", ok)
              /\ tasks' = Resume(t, [t EXCEPT !.pc = "mode_set", !.ok = ok])
              /\ UNCHANGED <<lastResponse, unanswered>>
         ELSE /\ tasks' = Finish(t)
              /\ sendResponse(Response("error"))
              /\ UNCHANGED <<currentMode, store>>
    /\ UNCHANGED <<metrics, confidenceThreshold, windowSize, stabilizationActive,
                   isInitialized, listening, series, detected, dwellTimers, notifications,
                   discarded, clock, sinceClear>>

(* updateMode returned (it swallows a rejection): the command is answered *)
AcknowledgeWarningDone ==
  \E t \in Suspended("ACKNOWLEDGE_WARNING", "mode_set") :
    /\ tasks' = Finish(t)
    /\ sendResponse(Response("success"))
    /\ UNCHANGED <<metrics, currentMode, confidenceThreshold, windowSize,
                   stabilizationActive, isInitialized, listening, series, detected, store,
                   dwellTimers, notifications, discarded, clock, sinceClear>>

(* case 'GET_SETTINGS': storage.local.get issued; what it reads is kept in t *)
GetSettingsRead(ok) ==
  \E t \in Suspended("GET_SETTINGS", "queued") :
    /\ tasks' = Resume(t, [t EXCEPT !.pc = "settings_get", !.ok = ok,
                                    !.settings = [k \in SettingsKeys |-> store[k]]])
    /\ UNCHANGED <<metrics, currentMode, confidenceThreshold, windowSize,
                   stabilizationActive, isInitialized, listening, series, detected, store,
                   dwellTimers, notifications, discarded, clock, lastResponse, unanswered,
                   sinceClear>>

GetSettingsDone ==
  \E t \in Suspended("GET_SETTINGS", "settings_get") :
    /\ sendResponse(IF t.ok
                         THEN [Response("settings") EXCEPT !.settings = t.settings]
                         ELSE Response("error"))
    /\ tasks' = Finish(t)
    /\ UNCHANGED <<metrics, currentMode, confidenceThreshold, windowSize,
                   stabilizationActive, isInitialized, listening, series, detected, store,
                   dwellTimers, notifications, discarded, clock, sinceClear>>

(* request.settings as the items of storage.local.set: its present fields *)
SettingsItems(settings) ==
  [k \in {x \in SettingsKeys : settings[x] # <<>>} |-> settings[k][1]]

ApplySettingReset(settings, k, old) == IF settings[k] # <<>> THEN settings[k][1] ELSE 0

(* "if (request.settings.x !== undefined) this.x = request.settings.x" *)
ApplySetting(settings, k, old) == IF settings[k] # <<>> THEN settings[k][1] ELSE old

(* case 'UPDATE_SETTINGS': storage.local.set(request.settings) issued *)
UpdateSettingsSet(ok) ==
  \E t \in Suspended("UPDATE_SETTINGS", "queued") :
    /\ store' = IF ok THEN StoreSet(store, SettingsItems(t.settings)) ELSE store
    /\ tasks' = Resume(t, [t EXCEPT !.pc = "settings_set", !.ok = ok])
    /\ UNCHANGED <<metrics, currentMode, confidenceThreshold, windowSize,
                   stabilizationActive, isInitialized, listening, series, detected, dwellTimers,
                   notifications, discarded, clock, lastResponse, unanswered, sinceClear>>

(* the write settled: the live fields are updated and the command answered *)
UpdateSettingsApply ==
  \E t \in Suspended("UPDATE_SETTINGS", "settings_set") :
    /\ IF t.ok
         THEN /\ confidenceThreshold' =
                   ApplySetting(t.settings, "confidenceThreshold", confidenceThreshold)
              /\ windowSize' = ApplySetting(t.settings, "windowSize", windowSize)
              /\ sendResponse(Response("success"))
         ELSE /\ sendResponse(Response("error"))
              /\ UNCHANGED <<confidenceThreshold, windowSize>>
    /\ tasks' = Finish(t)
    /\ UNCHANGED <<metrics, currentMode, stabilizationActive, isInitialized,
                   listening, series, detected, store, dwellTimers, notifications, discarded,
                   clock, sinceClear>>

TestShiftsAtThreshold ==
  << [metric |-> "test_usage", probability |-> confidenceThreshold,
      changePoint |-> TestChangePoint, severity |-> "high"] >>

(* the single finding TEST_WARNING passes to handleRegimeShift *)
TestShifts ==
  << [metric |-> "test_usage", probability |-> TestProbability,
      changePoint |-> TestChangePoint, severity |-> "high"] >>

(* case 'TEST_WARNING': handleRegimeShift up to its await *)
TestWarning(ok) ==
  \E t \in Suspended("TEST_WARNING", "queued") :
    /\ handleRegimeShift(TestShifts, ok)
    /\ tasks' = Resume(t, [t EXCEPT !.pc = "warning_set", !.ok = ok])
    /\ UNCHANGED <<metrics, confidenceThreshold, windowSize, stabilizationActive,
                   isInitialized, listening, series, detected, dwellTimers, notifications,
                   discarded, clock, lastResponse, unanswered, sinceClear>>

(* handleRegimeShift after its await (notification on success, catch block  *)
(* on rejection); then the command is answered                              *)
TestWarningNotify ==
  \E t \in Suspended("TEST_WARNING", "warning_set") :
    /\ notifications' = IF t.ok THEN notifications + 1 ELSE notifications
    /\ sendResponse(Response("success"))
    /\ tasks' = Finish(t)
    /\ UNCHANGED <<metrics, currentMode, confidenceThreshold, windowSize,
                   stabilizationActive, isInitialized, listening, series, detected, store,
                   dwellTimers, discarded, clock, sinceClear>>

(* case 'CLEAR_DATA': the window is emptied and storage.local.clear() issued *)
ClearData(ok) ==
  \E t \in Suspended("CLEAR_DATA", "queued") :
    /\ metrics' = <<>>
    /\ store' = IF ok THEN StoreClear(store) ELSE store
    /\ tasks' = Resume(t, [t EXCEPT !.pc = "store_clear", !.ok = ok])
    /\ UNCHANGED <<currentMode, confidenceThreshold, windowSize,
                   stabilizationActive, isInitialized, listening, series, detected, dwellTimers,
                   notifications, discarded, clock, lastResponse, unanswered, sinceClear>>

(* the clear has settled: { success: true, message: 'Data cleared' } is sent; *)
(* sinceClear records, as history, that no tick has begun since this answer  *)
ClearDataDone ==
  \E t \in Suspended("CLEAR_DATA", "store_clear") :
    /\ sendResponse(IF t.ok THEN Response("success") ELSE Response("error"))
    /\ sinceClear' = TRUE
    /\ tasks' = Finish(t)
    /\ UNCHANGED <<metrics, currentMode, confidenceThreshold, windowSize,
                   stabilizationActive, isInitialized, listening, series, detected, store,
                   dwellTimers, notifications, discarded, clock>>

(* responses that carry an error key: { error: error.message } from the    *)
(* catch of handleMessage and { error: 'Unknown action' } from its default  *)
ErrorResults == {"error", "unknown_action"}

UnknownActionReset ==
  \E t \in BagToSet(tasks) :
    /\ t.pc = "queued"
    /\ t.kind \notin Actions
    /\ sendResponse(Response("unknown_action"))
    /\ tasks' = Finish(t)
    /\ currentMode' = "adaptive_observation"
    /\ UNCHANGED <<metrics, confidenceThreshold, windowSize,
                   stabilizationActive, isInitialized, listening, series, detected, store,
                   dwellTimers, notifications, discarded, clock, sinceClear>>

(* default: { error: 'Unknown action' } *)
UnknownAction ==
  \E t \in BagToSet(tasks) :
    /\ t.pc = "queued"
    /\ t.kind \notin Actions
    /\ sendResponse(Response("unknown_action"))
    /\ tasks' = Finish(t)
    /\ UNCHANGED <<metrics, currentMode, confidenceThreshold, windowSize,
                   stabilizationActive, isInitialized, listening, series, detected, store,
                   dwellTimers, notifications, discarded, clock, sinceClear>>

(***************************************************************************)
(* Specifications                                                          *)
(***************************************************************************)
(* usage values the adapters report: the monitored load never falls, so a   *)
(* window holds at most one upward shift                                     *)
Levels ==
  {v \in 0 .. MaxLevel : metrics = <<>> \/ v >= metrics[Len(metrics)].memory}

(* the steps of the sampler, the analyzer and the mode state machine, with   *)
(* every storage and browser call succeeding                                 *)
Next ==
  \/ CollectMetricsBegin
  \/ \E memory \in Levels : CollectMetricsAppend(memory, 0, TRUE)
  \/ AnalyzeMetricsAlarm(TRUE)
  \/ AnalyzeMetricsNotify
  \/ DwellTimeout(TRUE)
  \/ \E action \in {"TRIGGER_STABILIZATION", "ACKNOWLEDGE_WARNING",
                    "TEST_WARNING", "CLEAR_DATA"} :
       handleMessage(action, NoSettings)
  \/ EnterStabilizationMode(TRUE)
  \/ PerformStabilizationActions(TRUE)
  \/ StabilizationQueried(TRUE)
  \/ StabilizationDiscarded(TRUE)
  \/ AcknowledgeWarningRemove(TRUE)
  \/ AcknowledgeWarningMode(TRUE)
  \/ AcknowledgeWarningDone
  \/ TestWarning(TRUE)
  \/ TestWarningNotify
  \/ ClearData(TRUE)
  \/ ClearDataDone

Spec == InitMonitoring /\ [][Next]_vars

(* the analyzer, the dwell timer and the mode commands with storage writes,  *)
(* the tab query and tab discards free to fail                               *)
NextFail ==
  \/ \E ok \in BOOLEAN : AnalyzeMetricsAlarm(ok)
  \/ \E ok \in BOOLEAN : DwellTimeout(ok)
  \/ \E action \in {"TRIGGER_STABILIZATION", "ACKNOWLEDGE_WARNING", "TEST_WARNING"} :
       handleMessage(action, NoSettings)
  \/ \E ok \in BOOLEAN : EnterStabilizationMode(ok)
  \/ \E ok \in BOOLEAN : PerformStabilizationActions(ok)
  \/ \E ok \in BOOLEAN : StabilizationQueried(ok)
  \/ \E ok \in BOOLEAN : StabilizationDiscarded(ok)
  \/ \E ok \in BOOLEAN : AcknowledgeWarningRemove(ok)
  \/ \E ok \in BOOLEAN : AcknowledgeWarningMode(ok)
  \/ AcknowledgeWarningDone
  \/ \E ok \in BOOLEAN : TestWarning(ok)
  \/ TestWarningNotify

SpecFail == InitMonitoring /\ [][NextFail]_vars

(* the event loop runs every continuation whose promise has settled and     *)
(* every timer that has expired: each step of the TRIGGER_STABILIZATION     *)
(* handler and the dwell-timer callback is weakly fair; commands and alarms *)
(* come from outside and are not                                            *)
DwellFairness ==
  /\ WF_vars(\E ok \in BOOLEAN : EnterStabilizationMode(ok))
  /\ WF_vars(\E ok \in BOOLEAN : PerformStabilizationActions(ok))
  /\ WF_vars(\E ok \in BOOLEAN : StabilizationQueried(ok))
  /\ WF_vars(\E ok \in BOOLEAN : StabilizationDiscarded(ok))
  /\ WF_vars(\E ok \in BOOLEAN : DwellTimeout(ok))

SpecFailLive == SpecFail /\ DwellFairness

(* window sizes sent with UPDATE_SETTINGS: 0 and Margin lie below the        *)
(* documented range, MinWindowSize is its lower end                          *)
WindowSizes == {0, Margin, MinWindowSize}

(* the sampler with the commands that touch or report the window *)
NextWindow ==
  \/ CollectMetricsBegin
  \/ CollectMetricsAppend(0, 0, TRUE)
  \/ \E action \in {"GET_STATUS", "GET_METRICS", "CLEAR_DATA"} :
       handleMessage(action, NoSettings)
  \/ \E size \in WindowSizes :
       handleMessage("UPDATE_SETTINGS", [NoSettings EXCEPT !["windowSize"] = <<size>>])
  \/ GetStatus
  \/ GetMetrics
  \/ UpdateSettingsSet(TRUE)
  \/ UpdateSettingsApply
  \/ ClearData(TRUE)
  \/ ClearDataDone

SpecWindow == InitWindow /\ [][NextWindow]_vars

(* thresholds sent with UPDATE_SETTINGS: 600 and 900 lie inside the          *)
(* documented range, 990 above it                                            *)
Thresholds == {600, 900, 990}

(* every payload over the three settings fields, each present or absent *)
Payloads ==
  {[confidenceThreshold |-> a, windowSize |-> b, monitoringEnabled |-> c] :
     a \in {<<>>, <<600>>, <<990>>},
     b \in {<<>>, <<Margin>>},
     c \in {<<>>, <<FALSE>>}}

(* the settings commands *)
NextSettings ==
  \/ \E p \in Payloads : handleMessage("UPDATE_SETTINGS", p)
  \/ handleMessage("GET_SETTINGS", NoSettings)
  \/ UpdateSettingsSet(TRUE)
  \/ UpdateSettingsApply
  \/ GetSettingsRead(TRUE)
  \/ GetSettingsDone

SpecSettings == InitMonitoring /\ [][NextSettings]_vars

(* the warning commands and the analyzer under a changing threshold *)
NextWarning ==
  \/ \E v \in Thresholds :
       handleMessage("UPDATE_SETTINGS", [NoSettings EXCEPT !["confidenceThreshold"] = <<v>>])
  \/ \E action \in {"TEST_WARNING", "ACKNOWLEDGE_WARNING"} :
       handleMessage(action, NoSettings)
  \/ CollectMetricsBegin
  \/ \E memory \in Levels : CollectMetricsAppend(memory, 0, TRUE)
  \/ AnalyzeMetricsAlarm(TRUE)
  \/ AnalyzeMetricsNotify
  \/ UpdateSettingsSet(TRUE)
  \/ UpdateSettingsApply
  \/ TestWarning(TRUE)
  \/ TestWarningNotify
  \/ AcknowledgeWarningRemove(TRUE)
  \/ AcknowledgeWarningMode(TRUE)
  \/ AcknowledgeWarningDone

SpecWarning == InitMonitoring /\ [][NextWarning]_vars

(* the two transitions with side effects, shift-confirmed (from the analyzer *)
(* or TEST_WARNING) and TRIGGER_STABILIZATION, from their first step to      *)
(* their last, with storage writes, the tab query and tab discards free to   *)
(* fail                                                                      *)
NextEffects ==
  \/ \E ok \in BOOLEAN : AnalyzeMetricsAlarm(ok)
  \/ AnalyzeMetricsNotify
  \/ \E action \in {"TRIGGER_STABILIZATION", "TEST_WARNING"} :
       handleMessage(action, NoSettings)
  \/ \E ok \in BOOLEAN : EnterStabilizationMode(ok)
  \/ \E ok \in BOOLEAN : PerformStabilizationActions(ok)
  \/ \E ok \in BOOLEAN : StabilizationQueried(ok)
  \/ \E ok \in BOOLEAN : StabilizationDiscarded(ok)
  \/ \E ok \in BOOLEAN : TestWarning(ok)
  \/ TestWarningNotify

(* one sample more than InitMonitoring: the step after the first Margin      *)
(* samples is now a split the detector tries, so the next analyzer run finds *)
(* it                                                                        *)
InitEffects ==
  \E stepAt \in {Margin, WarmSamples + 1} :
    Monitoring(StepWindow(WarmSamples + 1, stepAt))

SpecEffects == InitEffects /\ [][NextEffects]_vars

(* an action string outside the eight cases of the switch: the name an      *)
(* operator's "exit stabilization" request would carry                       *)
ExitVerb == "EXIT_STABILIZATION"

(* every command, known and unknown, one request at a time, with every      *)
(* storage and browser call free to fail, and the dwell timer                *)
NextCommands ==
  \/ \E action \in (Actions \ {"UPDATE_SETTINGS"}) \cup {ExitVerb} :
       tasks = EmptyBag /\ handleMessage(action, NoSettings)
  \/ /\ tasks = EmptyBag
     /\ handleMessage("UPDATE_SETTINGS", [NoSettings EXCEPT !["confidenceThreshold"] = <<600>>])
  \/ GetMetrics
  \/ GetStatus
  \/ \E ok \in BOOLEAN : EnterStabilizationMode(ok)
  \/ \E ok \in BOOLEAN : PerformStabilizationActions(ok)
  \/ \E ok \in BOOLEAN : StabilizationQueried(ok)
  \/ \E ok \in BOOLEAN : StabilizationDiscarded(ok)
  \/ \E ok \in BOOLEAN : DwellTimeout(ok)
  \/ \E ok \in BOOLEAN : AcknowledgeWarningRemove(ok)
  \/ \E ok \in BOOLEAN : AcknowledgeWarningMode(ok)
  \/ AcknowledgeWarningDone
  \/ \E ok \in BOOLEAN : GetSettingsRead(ok)
  \/ GetSettingsDone
  \/ \E ok \in BOOLEAN : UpdateSettingsSet(ok)
  \/ UpdateSettingsApply
  \/ \E ok \in BOOLEAN : TestWarning(ok)
  \/ TestWarningNotify
  \/ \E ok \in BOOLEAN : ClearData(ok)
  \/ ClearDataDone
  \/ UnknownAction

SpecCommands == InitWindow /\ [][NextCommands]_vars

(* the sampler alone, each adapter free to fail; measured usage is a level   *)
(* 0..MaxLevel, measured processor usage 0                                   *)
NextSampler ==
  \/ CollectMetricsBegin
  \/ \E okMemory, okCpu, okTabs \in BOOLEAN :
       \E usage \in 0 .. MaxLevel, fm \in FallbackMemoryUsage, fc \in FallbackCpuUsage :
         CollectMetricsSample(getMemoryInfo(okMemory, usage, fm),
                              getCpuInfo(okCpu, 0, fc), getTabInfo(okTabs), TRUE)

SpecSampler == InitMonitoring /\ [][NextSampler]_vars

(* the arrays the detector is called with on its own: every series of        *)
(* levels up to MaxSeriesLen values long                                     *)
SeriesInputs == UNION {[1 .. n -> 0 .. MaxLevel] : n \in 0 .. MaxSeriesLen}

InitDetect ==
  /\ Session(StepWindow(WarmSamples, WarmSamples))
  /\ series \in {<<>>} \cup {<<s>> : s \in SeriesInputs}
  /\ detected = NoResult

(* one call detectChangePoint(series) *)
Detect ==
  /\ detected' = detectChangePoint(series)
  /\ UNCHANGED <<metrics, currentMode, confidenceThreshold, windowSize,
                 stabilizationActive, isInitialized, listening, store, tasks,
                 dwellTimers, notifications, discarded, clock, lastResponse,
                 sinceClear, unanswered, series>>

SpecDetect == InitDetect /\ [][Detect]_vars

(* the body of the detector's loop on its own: every series with one or two *)
(* candidate splits                                                          *)
InitScore ==
  /\ Session(StepWindow(WarmSamples, WarmSamples))
  /\ series \in {<<s>> : s \in {x \in SeriesInputs :
                                   Len(x) \in 2 * Margin + 1 .. 2 * Margin + 2}}
  /\ detected = NoResult

(* one turn of the loop for the split i: detected keeps the probability the  *)
(* turn computes and the split it computed it for                            *)
ScoreSplit(i) ==
  /\ i \in CandidateSplits(series[1])
  /\ detected' = [probability |-> SplitScore(series[1], i), changePoint |-> i,
                  magnitude |-> SplitScore(series[1], i)]
  /\ UNCHANGED <<metrics, currentMode, confidenceThreshold, windowSize,
                 stabilizationActive, isInitialized, listening, store, tasks,
                 dwellTimers, notifications, discarded, clock, lastResponse,
                 sinceClear, unanswered, series>>

NextScore == \E i \in Margin .. Margin + 1 : ScoreSplit(i)

SpecScore == InitScore /\ [][NextScore]_vars

(* thresholds sent with UPDATE_SETTINGS to the analyzer: the upper end of    *)
(* the documented range, which is the cap of the probability, and a value    *)
(* below the range                                                           *)
AnalyzerThresholds == {200, MaxConfidenceThreshold}

(* a window of len samples whose memory usage is 1 at the positions in ones  *)
(* and 0 elsewhere                                                           *)
SpikeWindow(len, ones) ==
  [j \in 1 .. len |->
     [timestamp |-> j - len - 1, memory |-> IF j \in ones THEN 1 ELSE 0, cpu |-> 0,
      tabs |-> Len(Tabs)]]

(* WarmSamples + 1 samples, the first window with a split the detector       *)
(* tries: flat usage, a step after the first Margin samples, one early       *)
(* spike, or a spike followed by a late rise                                 *)
InitAnalyzer ==
  \E ones \in {{}, Margin + 1 .. WarmSamples + 1, {2},
                {Margin, WarmSamples, WarmSamples + 1}} :
    Monitoring(SpikeWindow(WarmSamples + 1, ones))

(* processor usage values the adapter reports: like Levels, never falling *)
CpuLevels ==
  {v \in 0 .. MaxLevel : metrics = <<>> \/ v >= metrics[Len(metrics)].cpu}

(* the sampler and the analyzer under a changing threshold, with the test    *)
(* warning, one handler at a time                                            *)
NextAnalyzer ==
  \/ tasks = EmptyBag /\ CollectMetricsBegin
  \/ \E memory \in Levels, cpu \in CpuLevels : CollectMetricsAppend(memory, cpu, TRUE)
  \/ tasks = EmptyBag /\ AnalyzeMetricsAlarm(TRUE)
  \/ AnalyzeMetricsNotify
  \/ \E v \in AnalyzerThresholds :
       /\ tasks = EmptyBag
       /\ handleMessage("UPDATE_SETTINGS", [NoSettings EXCEPT !["confidenceThreshold"] = <<v>>])
  \/ tasks = EmptyBag /\ handleMessage("TEST_WARNING", NoSettings)
  \/ UpdateSettingsSet(TRUE)
  \/ UpdateSettingsApply
  \/ TestWarning(TRUE)
  \/ TestWarningNotify

SpecAnalyzer == InitAnalyzer /\ [][NextAnalyzer]_vars

(* the sampler and the analyzer with CLEAR_DATA, which leaves the analyzer a *)
(* window of fewer than five samples; storage writes are free to fail        *)
NextShortWindow ==
  \/ CollectMetricsBegin
  \/ \E memory \in Levels : CollectMetricsAppend(memory, 0, TRUE)
  \/ \E ok \in BOOLEAN : AnalyzeMetricsAlarm(ok)
  \/ AnalyzeMetricsNotify
  \/ handleMessage("CLEAR_DATA", NoSettings)
  \/ \E ok \in BOOLEAN : ClearData(ok)
  \/ ClearDataDone

SpecShortWindow == InitEffects /\ [][NextShortWindow]_vars

(* the three query commands while the sampler ticks and the mode changes     *)
(* (a stabilization, a test warning); a request is sent when the one before  *)
(* has been answered                                                         *)
NextQueries ==
  \/ CollectMetricsBegin
  \/ \E memory \in Levels : CollectMetricsAppend(memory, 0, TRUE)
  \/ \E action \in {"GET_METRICS", "GET_STATUS", "GET_SETTINGS",
                    "TRIGGER_STABILIZATION", "TEST_WARNING"} :
       unanswered = 0 /\ handleMessage(action, NoSettings)
  \/ GetMetrics
  \/ GetStatus
  \/ \E ok \in BOOLEAN : GetSettingsRead(ok)
  \/ GetSettingsDone
  \/ EnterStabilizationMode(TRUE)
  \/ PerformStabilizationActions(TRUE)
  \/ StabilizationQueried(TRUE)
  \/ StabilizationDiscarded(TRUE)
  \/ TestWarning(TRUE)
  \/ TestWarningNotify

SpecQueries == InitMonitoring /\ [][NextQueries]_vars

(* the service worker from its construction on: initialize() with its load  *)
(* of the settings and its setupAlarms free to fail, then the sampler and    *)
(* the analyzer with every adapter and every storage write free to fail      *)
NextStartup ==
  \/ \E ok \in BOOLEAN : InitializeLoad(ok)
  \/ \E okAlarms \in BOOLEAN : InitializeStart(okAlarms)
  \/ CollectMetricsBegin
  \/ \E okMemory, okCpu, okTabs, ok \in BOOLEAN :
       \E usage \in 0 .. MaxLevel, fm \in FallbackMemoryUsage, fc \in FallbackCpuUsage :
         CollectMetricsSample(getMemoryInfo(okMemory, usage, fm),
                              getCpuInfo(okCpu, 0, fc), getTabInfo(okTabs), ok)
  \/ \E ok \in BOOLEAN : AnalyzeMetricsTimeout(ok)
  \/ \E ok \in BOOLEAN : AnalyzeMetricsAlarm(ok)

SpecStartup == Init /\ [][NextStartup]_vars

(***************************************************************************)
(* Properties                                                              *)
(***************************************************************************)
(* the analyzer alarm runs on five or more samples and finds a shift *)
AnalyzerFindsShift ==
  /\ Len(metrics) >= MinSamples
  /\ DetectedShifts(metrics, confidenceThreshold) # <<>>
  /\ AnalyzeMetricsAlarm(TRUE)

(* the analyzer alarm runs on five or more samples and finds no shift *)
AnalyzerFindsNoShift ==
  /\ Len(metrics) >= MinSamples
  /\ DetectedShifts(metrics, confidenceThreshold) = <<>>
  /\ AnalyzeMetricsAlarm(TRUE)

(* C1: the mode becomes Stabilization only in the step in which the handler  *)
(* of a TRIGGER_STABILIZATION command runs enterStabilizationMode; no        *)
(* sampler step, analyzer step, dwell-timer expiry or other command sets it. *)
C1_StabilizationOnlyByCommand ==
  [][(currentMode' = "stabilization" /\ currentMode # "stabilization")
       => \E ok \in BOOLEAN : EnterStabilizationMode(ok)]_vars

C1_Witness ==
  /\ currentMode = "stabilization"
  /\ stabilizationActive
  /\ dwellTimers > 0
  /\ notifications > 0

(* C2: whenever stabilizationActive is set, the dwell timeout eventually     *)
(* fires and leaves the mode AdaptiveObservation with the flag cleared, on   *)
(* every path, the ones on which the tab query or the store write of         *)
(* entering stabilization fails included.                                    *)
C2_DwellReturns ==
  stabilizationActive ~> (~stabilizationActive /\ currentMode = "adaptive_observation")

(* C3: an analyzer run that finds no shift while the mode is Warning or      *)
(* Stabilization leaves the mode as it is.                                   *)
C3_NoShiftKeepsMode ==
  [][(currentMode \in {"warning", "stabilization"} /\ AnalyzerFindsNoShift)
       => currentMode' = currentMode]_vars

C5_WindowBounded ==
  [][(metrics' # metrics /\ windowSize \in MinWindowSize .. MaxWindowSize)
       => Len(metrics') <= windowSize]_vars

(* a tick has trimmed: the window is full at windowSize = 10, its newest     *)
(* sample was taken after time 0 and the oldest initial sample is gone       *)
C5_Witness ==
  /\ windowSize = MinWindowSize
  /\ Len(metrics) = MinWindowSize
  /\ metrics[Len(metrics)].timestamp >= 0
  /\ metrics[1].timestamp > -MinWindowSize

(* C6: when the handler of an ACKNOWLEDGE_WARNING that began in Warning mode *)
(* sets the mode, the mode is AdaptiveObservation in memory and in the store *)
(* and the store holds no currentWarning.                                    *)
C6_AcknowledgeClears ==
  [][\A t \in Suspended("ACKNOWLEDGE_WARNING", "warning_remove") :
       (t.num = 1 /\ t.ok /\ tasks' = Resume(t, [t EXCEPT !.pc = "mode_set"]))
         => /\ currentMode' = "adaptive_observation"
            /\ store'["currentMode"] = <<"adaptive_observation">>
            /\ ~Has(store', "currentWarning")]_vars

(* C7: the step in which TEST_WARNING is handled in AdaptiveObservation      *)
(* moves the mode to Warning and stores a Warning with exactly one finding   *)
(* and overallConfidence 0.85, whatever confidenceThreshold is.              *)
C7_TestWarningRaises ==
  [][(/\ currentMode = "adaptive_observation"
      /\ \E t \in Suspended("TEST_WARNING", "queued") :
           tasks' = Resume(t, [t EXCEPT !.pc = "warning_set"]))
       => /\ currentMode' = "warning"
          /\ store'["currentMode"] = <<"warning">>
          /\ Has(store', "currentWarning")
          /\ Len(store'["currentWarning"][1].shifts) = 1
          /\ store'["currentWarning"][1].overallConfidence = TestProbability]_vars

(* the test warning is stored under a threshold above its probability *)
C7_Witness ==
  /\ currentMode = "warning"
  /\ confidenceThreshold > TestProbability
  /\ Has(store, "currentWarning")
  /\ store["currentWarning"][1].shifts[1].metric = "test_usage"

(* C8: CLEAR_DATA empties the window and removes currentWarning and          *)
(* currentMode from the store, and a GET_STATUS handled after its answer and *)
(* before the next sampler tick begins reports metricsCount 0.               *)
C8_ClearedStatus ==
  [][/\ (\E t \in Suspended("CLEAR_DATA", "queued") :
           tasks' = Resume(t, [t EXCEPT !.pc = "store_clear"]))
          => /\ metrics' = <<>>
             /\ ~Has(store', "currentWarning")
             /\ ~Has(store', "currentMode")
     /\ (sinceClear /\ \E t \in Suspended("GET_STATUS", "queued") : tasks' = Finish(t))
          => lastResponse'.metricsCount = 0]_vars

(* C9: the two steps of UPDATE_SETTINGS change only what the payload names:  *)
(* the write leaves every store key absent from the payload as it was, and   *)
(* the apply step leaves a live setting absent from the payload as it was.   *)
C9_PartialUpdate ==
  [][/\ \A t \in Suspended("UPDATE_SETTINGS", "queued") :
          tasks' = Resume(t, [t EXCEPT !.pc = "settings_set"])
            => /\ \A k \in StoreKeys :
                    (k \notin SettingsKeys \/ t.settings[k] = <<>>) => store'[k] = store[k]
               /\ confidenceThreshold' = confidenceThreshold
               /\ windowSize' = windowSize
     /\ \A t \in Suspended("UPDATE_SETTINGS", "settings_set") :
          tasks' = Finish(t)
            => /\ t.settings["confidenceThreshold"] = <<>>
                    => confidenceThreshold' = confidenceThreshold
               /\ t.settings["windowSize"] = <<>> => windowSize' = windowSize
               /\ store' = store]_vars

(* a threshold-only update has been applied: the threshold changed, the     *)
(* window size is still the default and was never stored                     *)
C9_Witness ==
  /\ confidenceThreshold = 600
  /\ store["confidenceThreshold"] = <<600>>
  /\ windowSize = DefaultWindowSize
  /\ ~Has(store, "windowSize")
  /\ ~Has(store, "monitoringEnabled")
  /\ lastResponse.result = "success"

(* C10: in every reachable state the live confidenceThreshold and           *)
(* windowSize lie in their documented ranges.                                *)
C10_SettingsInRange ==
  /\ confidenceThreshold \in MinConfidenceThreshold .. MaxConfidenceThreshold
  /\ windowSize \in MinWindowSize .. MaxWindowSize

(* handlers of command requests in flight (everything but ticks, analyzer   *)
(* runs and initialize)                                                     *)
CommandsInFlight ==
  BagCardinality([t \in {x \in BagToSet(tasks) :
                           x.kind \notin {"initialize", "collectMetrics", "analyzeMetrics"}}
                    |-> tasks[t]])

(* the handler of a command sends its answer after a storage operation of   *)
(* its own was rejected                                                     *)
AnswersAfterStoreFailure ==
  \E t \in BagToSet(tasks) :
    /\ ~t.ok
    /\ <<t.kind, t.pc>> \in {<<"TRIGGER_STABILIZATION", "stabilization_set">>,
                             <<"ACKNOWLEDGE_WARNING", "warning_remove">>,
                             <<"ACKNOWLEDGE_WARNING", "mode_set">>,
                             <<"TEST_WARNING", "warning_set">>,
                             <<"UPDATE_SETTINGS", "settings_set">>,
                             <<"CLEAR_DATA", "store_clear">>}
    /\ tasks' = Finish(t)

(* C11: when a storage operation of a TRIGGER_STABILIZATION,                 *)
(* ACKNOWLEDGE_WARNING, TEST_WARNING, UPDATE_SETTINGS or CLEAR_DATA handler  *)
(* is rejected, the step that issued it leaves the in-memory mode as it was  *)
(* and the handler answers with an error response.                           *)
C11_StoreFailureSurfaced ==
  [][/\ (\/ EnterStabilizationMode(FALSE)
         \/ AcknowledgeWarningRemove(FALSE)
         \/ AcknowledgeWarningMode(FALSE)
         \/ TestWarning(FALSE)
         \/ UpdateSettingsSet(FALSE)
         \/ ClearData(FALSE)) => currentMode' = currentMode
     /\ AnswersAfterStoreFailure => lastResponse'.result \in ErrorResults]_vars

(* C12: every request is answered exactly once and never by handleMessage   *)
(* itself: in every state the requests received and not yet answered are    *)
(* exactly the command handlers in flight, whatever the verb and whatever    *)
(* fails.                                                                    *)
C12_AnsweredOnce == unanswered = CommandsInFlight

(* requests that succeeded, failed and named an unknown verb have all been   *)
(* answered: a stabilization is under way and the last answer is an error    *)
C12_Witness ==
  /\ unanswered = 0
  /\ tasks = EmptyBag
  /\ stabilizationActive
  /\ dwellTimers > 0
  /\ lastResponse.result = "error"

(* C13: the handler of a request whose action is none of the eight verbs     *)
(* answers with an error response and leaves the window, the mode,           *)
(* stabilizationActive, the live settings and the whole store unchanged.     *)
C13_UnknownVerbRejected ==
  [][\A t \in BagToSet(tasks) :
       (/\ t.kind \notin Actions \cup {"initialize", "collectMetrics", "analyzeMetrics"}
        /\ t.pc = "queued"
        /\ tasks' = Finish(t))
         => /\ lastResponse'.result \in ErrorResults
            /\ UNCHANGED <<metrics, currentMode, stabilizationActive,
                           confidenceThreshold, windowSize, store>>]_vars

(* an unknown verb was answered during a stabilization that is still in      *)
(* place, with a changed threshold and a stored warning                      *)
C13_Witness ==
  /\ lastResponse.result = "unknown_action"
  /\ currentMode = "stabilization"
  /\ stabilizationActive
  /\ confidenceThreshold = 600
  /\ Has(store, "currentWarning")

(* C14: at most one timed return is pending at any time, and a dwell timer   *)
(* that fires when the mode is Warning leaves it Warning.                    *)
C14_SingleTimedReturn ==
  [][/\ dwellTimers' <= 1
     /\ (currentMode = "warning" /\ DwellTimeout(TRUE)) => currentMode' = "warning"]_vars

(* C15: the handler of an exit request received while the mode is            *)
(* Stabilization sets the mode to AdaptiveObservation and clears             *)
(* stabilizationActive.                                                      *)
C15_ExitAccepted ==
  [][\A t \in Suspended(ExitVerb, "queued") :
       (currentMode = "stabilization" /\ tasks' = Finish(t))
         => /\ currentMode' = "adaptive_observation"
            /\ ~stabilizationActive']_vars

(* C16: in every state the window is ordered by sample timestamp.           *)
C16_WindowOrdered ==
  \A j \in 1 .. Len(metrics) - 1 : metrics[j].timestamp <= metrics[j + 1].timestamp

(* C17: the step that completes a sampler tick appends exactly one sample,   *)
(* the tick's own, built from usable values (a usage between 0 and 100, a    *)
(* tab count) whichever adapters failed, and publishes it as currentMetrics. *)
C17_TickAppendsOne ==
  [][\A t \in Suspended("collectMetrics", "adapters") :
       tasks' = Finish(t)
         => /\ Len(metrics') = Len(metrics) + 1
            /\ SubSeq(metrics', 1, Len(metrics)) = metrics
            /\ metrics'[Len(metrics')].timestamp = t.num
            /\ metrics'[Len(metrics')].memory \in 0 .. 100
            /\ metrics'[Len(metrics')].cpu \in 0 .. 100
            /\ metrics'[Len(metrics')].tabs \in 0 .. Len(Tabs)
            /\ store'["currentMetrics"] = <<metrics'[Len(metrics')]>>]_vars

(* a tick all of whose adapters failed has appended and published its sample *)
C17_Witness ==
  /\ metrics # <<>>
  /\ metrics[Len(metrics)].timestamp >= 0
  /\ metrics[Len(metrics)].memory \in FallbackMemoryUsage
  /\ metrics[Len(metrics)].cpu \in FallbackCpuUsage
  /\ metrics[Len(metrics)].tabs = 0
  /\ store["currentMetrics"] = <<metrics[Len(metrics)]>>

(* C18: a notification is sent only by a handler whose write of              *)
(* currentWarning and currentMode has settled successfully, and              *)
(* performStabilizationActions (tab query, discards, exit timer) is entered  *)
(* only by a handler whose write of currentMode and stabilizationActive has  *)
(* settled successfully.                                                     *)
C18_PersistedBeforeEffects ==
  [][/\ notifications' > notifications
          => \E t \in BagToSet(tasks) :
               t.pc = "warning_set" /\ t.ok /\ tasks' = Finish(t)
     /\ \A u \in BagToSet(tasks') \ BagToSet(tasks) :
          (u.kind = "TRIGGER_STABILIZATION" /\ u.pc = "tabs_query")
            => \E t \in Suspended("TRIGGER_STABILIZATION", "stabilization_set") :
                 t.ok /\ tasks' = Resume(t, u)
     /\ (discarded' # discarded \/ dwellTimers' > dwellTimers)
          => \E t \in BagToSet(tasks) :
               /\ t.kind = "TRIGGER_STABILIZATION"
               /\ t.pc \in {"tabs_query", "discard"}
               /\ t \notin BagToSet(tasks') \/ tasks'[t] < tasks[t]]_vars

(* the analyzer's warning was stored and notified and a stabilization        *)
(* discarded tabs and set its timer, all after their writes                  *)
C18_Witness ==
  /\ notifications > 0
  /\ Has(store, "currentWarning")
  /\ store["currentWarning"][1].shifts[1].metric = "memory_usage"
  /\ discarded # {}
  /\ dwellTimers > 0
  /\ store["stabilizationActive"] = <<TRUE>>

(* C19: detectChangePoint called with no series or with a series of fewer    *)
(* than two values returns {probability: 0, changePoint: -1, magnitude: 0}.  *)
C19_ShortSeries ==
  (detected # NoResult /\ (series = <<>> \/ Len(series[1]) < 2))
    => detected = [probability |-> 0, changePoint |-> -1, magnitude |-> 0]

(* the detector has returned for a series of one value *)
C19_Witness ==
  /\ detected # NoResult
  /\ series # <<>>
  /\ Len(series[1]) = 1

(* s is k copies of one value followed by k copies of another *)
IsStep(s, k) ==
  /\ Len(s) = 2 * k
  /\ \A j \in 1 .. k : s[j] = s[1] /\ s[k + j] = s[2 * k]
  /\ s[1] # s[2 * k]

(* C20: for a step series of k and k values, k large enough for the split at *)
(* k to be tried (Margin <= k < 2k - Margin), detectChangePoint returns      *)
(* changePoint k with the probability at its cap.                            *)
C20_StepFound ==
  \A k \in Margin + 1 .. MaxSeriesLen :
    (detected # NoResult /\ series # <<>> /\ IsStep(series[1], k))
      => detected.changePoint = k /\ detected.probability = ProbabilityCap

(* C21: for a series with at least one candidate split (2 * Margin + 1       *)
(* values or more) detectChangePoint returns a candidate split whose score   *)
(* is the largest, the lowest such split on ties, with probability and       *)
(* magnitude equal to that score; also when every split scores 0.            *)
C21_MaxSplitReturned ==
  (detected # NoResult /\ series # <<>> /\ Len(series[1]) >= 2 * Margin + 1)
    => LET s == series[1]
           c == detected.changePoint
       IN  /\ c \in CandidateSplits(s)
           /\ \A j \in CandidateSplits(s) :
                /\ SplitScore(s, j) <= SplitScore(s, c)
                /\ j < c => SplitScore(s, j) < SplitScore(s, c)
           /\ detected.probability = SplitScore(s, c)
           /\ detected.magnitude = SplitScore(s, c)

(* C22: whatever detectChangePoint is called with, its result has            *)
(* probability = magnitude, a probability from 0 to the cap of 0.95, and a   *)
(* changePoint from -1 to below the length of the series (-1 when there is   *)
(* no series).                                                               *)
C22_ResultInRange ==
  detected # NoResult
    => /\ detected.probability = detected.magnitude
       /\ detected.probability \in 0 .. ProbabilityCap
       /\ detected.changePoint >= -1
       /\ detected.changePoint < (IF series = <<>> THEN 0 ELSE Len(series[1]))

(* the detector has returned a candidate split with the score at its cap *)
C22_Witness ==
  /\ detected # NoResult
  /\ series # <<>>
  /\ detected.changePoint \in CandidateSplits(series[1])
  /\ detected.probability = ProbabilityCap

(* the series a split's score is compared with: the shortest series with a  *)
(* candidate split, over a low and a high usage                             *)
ReferenceSeries == [1 .. 2 * Margin + 1 -> {0, 1}]

(* var1 + var2 is the same for the split i of s and the split j of t *)
SameVariance(s, i, t, j) ==
  SplitW(s, i) * SplitD(t, j) * SplitD(t, j) = SplitW(t, j) * SplitD(s, i) * SplitD(s, i)

(* |mean1 - mean2| of the split j of t is at most that of the split i of s *)
MeanDiffAtMost(t, j, s, i) ==
  SplitN(t, j) * SplitD(s, i) <= SplitN(s, i) * SplitD(t, j)

(* C23: of two splits with equal var1 + var2 the one with the larger         *)
(* |mean1 - mean2| never gets the smaller score.                             *)
C23_ScoreMonotone ==
  detected # NoResult
    => LET s == series[1]
           i == detected.changePoint
       IN  \A t \in ReferenceSeries : \A j \in CandidateSplits(t) :
             SameVariance(s, i, t, j)
               => /\ MeanDiffAtMost(t, j, s, i) => SplitScore(t, j) <= detected.probability
                  /\ MeanDiffAtMost(s, i, t, j) => detected.probability <= SplitScore(t, j)

(* a split scored below the cap, and a reference split with the same         *)
(* variance, a smaller mean difference and a smaller score                   *)
C23_Witness ==
  /\ detected # NoResult
  /\ detected.probability < ProbabilityCap
  /\ \E t \in ReferenceSeries : \E j \in CandidateSplits(t) :
       /\ SameVariance(series[1], detected.changePoint, t, j)
       /\ ~MeanDiffAtMost(series[1], detected.changePoint, t, j)
       /\ 0 < SplitScore(t, j)
       /\ SplitScore(t, j) < detected.probability

(* C24: an analyzer tick that finds fewer than five samples in the window    *)
(* changes neither the mode, stabilizationActive, the window nor any key of  *)
(* the store, sends no notification and leaves no handler in flight.         *)
C24_ShortWindowNoOp ==
  [][(Len(metrics) < MinSamples /\ \E ok \in BOOLEAN : AnalyzeMetricsAlarm(ok))
       => UNCHANGED <<currentMode, stabilizationActive, metrics, store,
                      notifications, tasks>>]_vars

(* the analyzer is due on a window of one to four samples while the mode is  *)
(* Warning, after a notification, with a warning stored (the clear failed)   *)
(* and the newest sample published                                           *)
C24_Witness ==
  /\ Len(metrics) \in 1 .. MinSamples - 1
  /\ currentMode = "warning"
  /\ notifications > 0
  /\ Has(store, "currentWarning")
  /\ store["currentMetrics"] = <<metrics[Len(metrics)]>>
  /\ ENABLED AnalyzeMetricsAlarm(TRUE)

(* a step of the analyzer alarm with every write succeeding.  The first      *)
(* conjuncts follow from the last one (the analyzer touches none of these    *)
(* variables and resumes no handler); they tell the steps of other handlers  *)
(* apart before the detector is evaluated.                                   *)
AnalyzerStep ==
  /\ UNCHANGED <<metrics, clock, unanswered, notifications, confidenceThreshold>>
  /\ \A t \in BagToSet(tasks) : CopiesIn(t, tasks') >= CopiesIn(t, tasks)
  /\ AnalyzeMetricsAlarm(TRUE)

(* what the detector returns for one metric of the window *)
MetricShift(window, metric) ==
  detectChangePoint(<<[j \in 1 .. Len(window) |->
                        IF metric = "memory_usage" THEN window[j].memory ELSE window[j].cpu]>>)

(* the findings of the warning an analyzer step has just written, none when  *)
(* it has written no warning                                                 *)
WrittenFindings ==
  IF currentMode' = "warning" /\ tasks' # tasks
    THEN store'["currentWarning"][1].shifts ELSE <<>>

(* C25: an analyzer step on five or more samples builds a finding for memory *)
(* usage, and likewise for processor usage, exactly when the detector's      *)
(* probability for that metric is strictly greater than confidenceThreshold  *)
(* (none when they are equal); the finding carries that probability and the  *)
(* severity critical for a magnitude above 0.8, high above 0.6, medium above *)
(* 0.4 and low otherwise.                                                    *)
C25_FindingIffAboveThreshold ==
  [][(Len(metrics) >= MinSamples /\ AnalyzerStep)
       => \A metric \in {"memory_usage", "cpu_usage"} :
            LET shift == MetricShift(metrics, metric)
                found == {k \in 1 .. Len(WrittenFindings) : WrittenFindings[k].metric = metric}
            IN  /\ (found # {}) <=> (shift.probability > confidenceThreshold)
                /\ Cardinality(found) <= 1
                /\ \A k \in found :
                     /\ WrittenFindings[k].probability = shift.probability
                     /\ WrittenFindings[k].changePoint = shift.changePoint
                     /\ WrittenFindings[k].severity =
                          IF shift.magnitude > 800 THEN "critical"
                          ELSE IF shift.magnitude > 600 THEN "high"
                          ELSE IF shift.magnitude > 400 THEN "medium"
                          ELSE "low"]_vars

(* memory usage has a shift of probability 0.95 under a threshold of 0.95,  *)
(* and the analyzer has run on it without a finding: the warning of an      *)
(* earlier run is still stored and the mode is back to AdaptiveObservation  *)
C25_Witness ==
  /\ Len(metrics) >= MinSamples
  /\ confidenceThreshold = MaxConfidenceThreshold
  /\ MetricShift(metrics, "memory_usage").probability = confidenceThreshold
  /\ Has(store, "currentWarning")
  /\ currentMode = "adaptive_observation"
  /\ store["currentMode"] = <<"adaptive_observation">>

(* C26: every warning record in the store has a non-empty list of findings  *)
(* and an overallConfidence equal to the largest probability among them;     *)
(* the store holds at most one record; and a shift the analyzer confirms in  *)
(* AdaptiveObservation replaces whatever record is stored by the record of   *)
(* its own findings.                                                         *)
C26_WarningRecord ==
  [][/\ Len(store'["currentWarning"]) <= 1
     /\ Has(store', "currentWarning")
          => LET warning == store'["currentWarning"][1]
             IN  /\ warning.shifts # <<>>
                 /\ \A k \in 1 .. Len(warning.shifts) :
                      warning.shifts[k].probability <= warning.overallConfidence
                 /\ \E k \in 1 .. Len(warning.shifts) :
                      warning.shifts[k].probability = warning.overallConfidence
     /\ (/\ currentMode = "adaptive_observation"
         /\ Len(metrics) >= MinSamples
         /\ AnalyzerStep
         /\ tasks' # tasks)
          => /\ Has(store', "currentWarning")
             /\ store'["currentWarning"][1].shifts =
                  DetectedShifts(metrics, confidenceThreshold)]_vars

(* the second warning notified: a record with two findings is stored, the   *)
(* later finding the more probable                                          *)
C26_Witness ==
  /\ Has(store, "currentWarning")
  /\ Len(store["currentWarning"][1].shifts) = 2
  /\ store["currentWarning"][1].shifts[1].probability
       < store["currentWarning"][1].shifts[2].probability
  /\ lastResponse.result = "success"
  /\ notifications >= 2

(* C27: the answer to GET_SETTINGS carries the settings in effect: its       *)
(* confidenceThreshold and windowSize are the live values the sampler and    *)
(* the analyzer use, the defaults before any UPDATE_SETTINGS included.       *)
C27_SettingsInEffect ==
  [][\A t \in Suspended("GET_SETTINGS", "settings_get") :
       (t.ok /\ tasks' = Finish(t))
         => /\ lastResponse'.settings["confidenceThreshold"] = <<confidenceThreshold>>
            /\ lastResponse'.settings["windowSize"] = <<windowSize>>]_vars

(* a handler of one of the three query commands takes a step *)
QueryStep(t) ==
  /\ t.kind \in {"GET_METRICS", "GET_STATUS", "GET_SETTINGS"}
  /\ CopiesIn(t, tasks') < CopiesIn(t, tasks)

(* C28: no step of a GET_METRICS, GET_STATUS or GET_SETTINGS handler changes *)
(* the window, the mode, stabilizationActive, the live settings or the       *)
(* store, and the answer to GET_STATUS carries the mode, the flag and the    *)
(* length of the window as they are when it is handled.                      *)
C28_QueriesReadOnly ==
  [][\A t \in BagToSet(tasks) :
       QueryStep(t)
         => /\ UNCHANGED <<metrics, currentMode, stabilizationActive,
                           confidenceThreshold, windowSize, store>>
            /\ t.kind = "GET_STATUS"
                 => /\ lastResponse'.mode = currentMode
                    /\ lastResponse'.stabilizationActive = stabilizationActive
                    /\ lastResponse'.metricsCount = Len(metrics)]_vars

(* GET_STATUS was answered during a stabilization, after a tick had grown   *)
(* the window                                                                *)
C28_Witness ==
  /\ lastResponse.result = "status"
  /\ lastResponse.mode = "stabilization"
  /\ lastResponse.stabilizationActive
  /\ lastResponse.metricsCount > WarmSamples
  /\ lastResponse.metricsCount = Len(metrics)

(* C29: no failure ends monitoring: once initialize() has returned, whatever *)
(* failed in it (the load of the settings included) or in a tick since, the  *)
(* alarm listener that runs the sampler and analyzer ticks is registered, so *)
(* that the next tick can run.                                               *)
C29_MonitoringSurvives ==
  InFlightOf("initialize") = 0 => "alarm" \in listening

(* C30: eviction is first in, first out.  The step that completes a tick     *)
(* puts the tick's sample last; the samples before it are samples of the     *)
(* previous window in their previous order: all but the oldest when the      *)
(* window held exactly windowSize samples, and in general (windowSize >= 1)  *)
(* the newest min(length, windowSize - 1) of them.                           *)
C30_FifoEviction ==
  [][\A t \in Suspended("collectMetrics", "adapters") :
       tasks' = Finish(t)
         => LET kept == Len(metrics') - 1
            IN  /\ kept >= 0
                /\ metrics'[Len(metrics')].timestamp = t.num
                /\ Len(metrics) = windowSize
                     => SubSeq(metrics', 1, kept) = SubSeq(metrics, 2, Len(metrics))
                /\ windowSize >= 1
                     => /\ kept = IF Len(metrics) < windowSize - 1
                                    THEN Len(metrics) ELSE windowSize - 1
                        /\ SubSeq(metrics', 1, kept) =
                             SubSeq(metrics, Len(metrics) - kept + 1, Len(metrics))]_vars

(* two ticks have each evicted the oldest sample of a full window of        *)
(* windowSize = 10: the two oldest initial samples are gone, the others     *)
(* are followed by the samples of the two ticks                             *)
C30_Witness ==
  /\ windowSize = MinWindowSize
  /\ Len(metrics) = MinWindowSize
  /\ metrics[1].timestamp = 2 - MinWindowSize
  /\ metrics[Len(metrics) - 1].timestamp = 0
  /\ metrics[Len(metrics)].timestamp = 1

(* C31: in every reachable state in which windowSize lies in the documented *)
(* range the window holds at most windowSize samples, the state between an   *)
(* UPDATE_SETTINGS that lowers windowSize below the length of the window and *)
(* the next sampler tick included.                                           *)
C31_BoundAlways ==
  windowSize \in MinWindowSize .. MaxWindowSize => Len(metrics) <= windowSize

(* C32: in every state with no handler in flight, stabilizationActive is    *)
(* true exactly when the mode is Stabilization.                             *)
C32_FlagMatchesMode ==
  tasks = EmptyBag => (stabilizationActive <=> currentMode = "stabilization")

(* C33: in every state with no handler in flight, a currentWarning record   *)
(* is stored exactly when the mode is Warning.                              *)
C33_WarningMatchesMode ==
  tasks = EmptyBag => (Has(store, "currentWarning") <=> currentMode = "warning")

(***************************************************************************)
(* The mode writers against each other: the analyzer, the dwell timer and  *)
(* the commands that assign the mode, interleaved at their awaits, with     *)
(* every storage and browser call succeeding                                *)
(***************************************************************************)
NextModes ==
  \/ AnalyzeMetricsAlarm(TRUE)
  \/ AnalyzeMetricsNotify
  \/ DwellTimeout(TRUE)
  \/ \E action \in {"TRIGGER_STABILIZATION", "ACKNOWLEDGE_WARNING",
                    "TEST_WARNING", "CLEAR_DATA"} :
       handleMessage(action, NoSettings)
  \/ EnterStabilizationMode(TRUE)
  \/ PerformStabilizationActions(TRUE)
  \/ StabilizationQueried(TRUE)
  \/ StabilizationDiscarded(TRUE)
  \/ AcknowledgeWarningRemove(TRUE)
  \/ AcknowledgeWarningMode(TRUE)
  \/ AcknowledgeWarningDone
  \/ TestWarning(TRUE)
  \/ TestWarningNotify
  \/ ClearData(TRUE)
  \/ ClearDataDone

SpecModes == InitEffects /\ [][NextModes]_vars

(* C34: with every store write succeeding, whenever no handler is in flight *)
(* the currentMode value in the store, if there is one, is the in-memory    *)
(* mode.                                                                    *)
C34_StoredModeFollows ==
  (tasks = EmptyBag /\ Has(store, "currentMode")) => store["currentMode"] = <<currentMode>>

(* the analyzer's warning, a stabilization and an acknowledgement have all  *)
(* written the mode, and the store holds the last of them                   *)
C34_Witness ==
  /\ tasks = EmptyBag
  /\ notifications > 0
  /\ stabilizationActive
  /\ dwellTimers > 0
  /\ currentMode = "adaptive_observation"
  /\ store["currentMode"] = <<"adaptive_observation">>
  /\ ~Has(store, "currentWarning")

(***************************************************************************)
(* TEST_WARNING and ACKNOWLEDGE_WARNING alone, interleaved at their awaits: *)
(* run one after the other they leave the mode and the stored warning in    *)
(* step                                                                     *)
(***************************************************************************)
NextAcknowledge ==
  \/ \E action \in {"TEST_WARNING", "ACKNOWLEDGE_WARNING"} :
       handleMessage(action, NoSettings)
  \/ TestWarning(TRUE)
  \/ TestWarningNotify
  \/ AcknowledgeWarningRemove(TRUE)
  \/ AcknowledgeWarningMode(TRUE)
  \/ AcknowledgeWarningDone

SpecAcknowledge == InitMonitoring /\ [][NextAcknowledge]_vars

(* C35: once the handlers have finished, a stored currentWarning means the  *)
(* mode is Warning, also when the warning was raised between the            *)
(* acknowledgement's remove and its assignment of the mode.                 *)
C35_RaisedWarningKept ==
  (tasks = EmptyBag /\ Has(store, "currentWarning")) => currentMode = "warning"

(***************************************************************************)
(* The detector and the analyzer on the shortest windows the analyzer      *)
(* accepts, windows of MinSamples - 1 to 2 * Margin + 1 samples, the       *)
(* memory series passed to the detector on its own as well, under a        *)
(* changing threshold and with the test warning, one handler at a time      *)
(***************************************************************************)
(* the window whose memory usage is s and whose processor usage is s read   *)
(* backwards                                                                *)
SeriesWindow(s) ==
  [j \in 1 .. Len(s) |->
     [timestamp |-> j - Len(s) - 1, memory |-> s[j], cpu |-> s[Len(s) + 1 - j],
      tabs |-> Len(Tabs)]]

(* every series of MinSamples - 1 to 2 * Margin values, and the series of   *)
(* 2 * Margin + 1 values, the first with a candidate split, over the lowest  *)
(* and the highest level                                                     *)
ShortSeries ==
  {x \in SeriesInputs : Len(x) \in MinSamples - 1 .. 2 * Margin}
    \cup [1 .. 2 * Margin + 1 -> {0, MaxLevel}]

InitShortSeries ==
  \E s \in ShortSeries :
    /\ Session(SeriesWindow(s))
    /\ series = <<s>>
    /\ detected = NoResult

NextShortSeries ==
  \/ Detect
  \/ tasks = EmptyBag /\ AnalyzeMetricsAlarm(TRUE)
  \/ AnalyzeMetricsNotify
  \/ \E v \in AnalyzerThresholds :
       /\ tasks = EmptyBag
       /\ handleMessage("UPDATE_SETTINGS", [NoSettings EXCEPT !["confidenceThreshold"] = <<v>>])
  \/ tasks = EmptyBag /\ handleMessage("TEST_WARNING", NoSettings)
  \/ UpdateSettingsSet(TRUE)
  \/ UpdateSettingsApply
  \/ TestWarning(TRUE)
  \/ TestWarningNotify

SpecShortSeries == InitShortSeries /\ [][NextShortSeries]_vars

(* C36: the detector returns probability 0 and changePoint -1 for every     *)
(* series of fewer than 2 * Margin + 1 = 7 values, and an analyzer step on  *)
(* a window of five or six samples confirms no shift: it writes no warning, *)
(* sends no notification and takes the no-shift branch, which sets and      *)
(* stores the mode AdaptiveObservation.                                     *)
C36_NoSplitNoShift ==
  /\ []((detected # NoResult /\ Len(series[1]) < 2 * Margin + 1)
          => (detected.probability = 0 /\ detected.changePoint = -1))
  /\ [][(Len(metrics) \in MinSamples .. 2 * Margin /\ AnalyzerStep)
          => /\ currentMode' = "adaptive_observation"
             /\ store' = updateMode(store, "adaptive_observation", TRUE)
             /\ UNCHANGED <<tasks, notifications, stabilizationActive>>]_vars

(* a window of six samples stepping from 0 to 1 in the middle, under the    *)
(* threshold 0.2: the detector has returned for its memory series, and the  *)
(* analyzer has run on it while the mode was Warning and has set the mode   *)
(* back, the test warning still stored                                      *)
C36_Witness ==
  /\ detected # NoResult
  /\ IsStep(series[1], Margin)
  /\ series[1][1] # series[1][2 * Margin]
  /\ metrics = SeriesWindow(series[1])
  /\ confidenceThreshold < MinConfidenceThreshold
  /\ Has(store, "currentWarning")
  /\ notifications > 0
  /\ currentMode = "adaptive_observation"
  /\ store["currentMode"] = <<"adaptive_observation">>

(* C37: while confidenceThreshold is 0.95, the documented maximum, an        *)
(* analyzer step on five or more samples confirms no shift whatever the      *)
(* window holds (it writes no warning, sends no notification and takes the   *)
(* no-shift branch), and the only step that takes the mode to Warning is     *)
(* the test warning.                                                         *)
C37_MaxThresholdSilent ==
  [][confidenceThreshold = MaxConfidenceThreshold
       => /\ (currentMode # "warning" /\ currentMode' = "warning") => TestWarning(TRUE)
          /\ (Len(metrics) >= MinSamples /\ AnalyzerStep)
               => /\ currentMode' = "adaptive_observation"
                  /\ store' = updateMode(store, "adaptive_observation", TRUE)
                  /\ UNCHANGED <<tasks, notifications>>]_vars

(* under the threshold 0.95 the processor series of the window has a shift   *)
(* of probability 0.95, the stored warning is the test warning, and the      *)
(* analyzer has run since and set the mode back                              *)
C37_Witness ==
  /\ confidenceThreshold = MaxConfidenceThreshold
  /\ store["confidenceThreshold"] = <<MaxConfidenceThreshold>>
  /\ MetricShift(metrics, "cpu_usage").probability = ProbabilityCap
  /\ Has(store, "currentWarning")
  /\ store["currentWarning"][1].overallConfidence = TestProbability
  /\ currentMode = "adaptive_observation"
  /\ store["currentMode"] = <<"adaptive_observation">>

(* the findings of one analyzer run on window under threshold, each metric's *)
(* series read from that one window                                          *)
SnapshotFindings(window, threshold) ==
  LET found(metric) ==
        IF MetricShift(window, metric).probability > threshold
          THEN <<Finding(metric, MetricShift(window, metric))>> ELSE <<>>
  IN  found("memory_usage") \o found("cpu_usage")

(* C38: an analyzer run works on one snapshot of the window: with sampler    *)
(* ticks and CLEAR_DATA in flight around it, the findings it writes are      *)
(* those of the memory series and the processor series of the window as it   *)
(* is when the run starts, each as long as the window, and the run leaves    *)
(* the window as it found it.                                                *)
C38_AnalyzerSnapshot ==
  [][(Len(metrics) >= MinSamples /\ AnalyzerStep)
       => /\ WrittenFindings = SnapshotFindings(metrics, confidenceThreshold)
          /\ metrics' = metrics]_vars

(* the analyzer has confirmed the step in the memory series of the whole     *)
(* window with a sampler tick or a CLEAR_DATA in flight                      *)
C38_Witness ==
  /\ Suspended("analyzeMetrics", "warning_set") # {}
  /\ InFlightOf("collectMetrics") + InFlightOf("CLEAR_DATA") > 0
  /\ Len(metrics) >= MinSamples
  /\ Has(store, "currentWarning")
  /\ store["currentWarning"][1].shifts =
       <<Finding("memory_usage", MetricShift(metrics, "memory_usage"))>>

(* the positions after from of the tabs that are neither active nor pinned *)
BackgroundTabsAfter(from) ==
  {k \in from + 1 .. Len(Tabs) : ~Tabs[k].active /\ ~Tabs[k].pinned}

(* C39: no active and no pinned tab is ever discarded; and when the discard  *)
(* of a tab settles, rejected or not, the handler goes on to the next tab    *)
(* that is neither active nor pinned, or, when there is none, sets the dwell *)
(* timer.                                                                    *)
C39_BackgroundOnly ==
  [][/\ \A j \in 1 .. Len(Tabs) :
          Tabs[j].id \in discarded' => (~Tabs[j].active /\ ~Tabs[j].pinned)
     /\ \A t \in Suspended("TRIGGER_STABILIZATION", "discard") :
          CopiesIn(t, tasks') < CopiesIn(t, tasks)
            => IF BackgroundTabsAfter(t.num) = {}
                 THEN dwellTimers' = dwellTimers + 1
                 ELSE /\ dwellTimers' = dwellTimers
                      /\ \E u \in Suspended("TRIGGER_STABILIZATION", "discard")' :
                           /\ u.num \in BackgroundTabsAfter(t.num)
                           /\ \A k \in BackgroundTabsAfter(t.num) : u.num <= k
                           /\ CopiesIn(u, tasks') > CopiesIn(u, tasks)]_vars

(* the discard of the first background tab was rejected, the second was      *)
(* discarded all the same, and the timer is set                              *)
C39_Witness ==
  /\ discarded = {Tabs[Len(Tabs)].id}
  /\ dwellTimers > 0
  /\ InFlightOf("TRIGGER_STABILIZATION") = 0
  /\ currentMode = "stabilization"
  /\ stabilizationActive

====
